---- MODULE Spec2Model ----
(***************************************************************************)
(* Storage Agreement Ledger (contract CharityAuditStorage) and its content *)
(* key conversion, modelled from the Solidity source.                      *)
(*                                                                         *)
(* Spec     : the ledger as a state machine, one action per external       *)
(*            function, one transaction per step.                          *)
(* SpecKey  : stringToBytes32 applied to the memory image of successive    *)
(*            call frames.                                                  *)
(* SpecClient : the calls of RIFStorageClient (offers, best offer, quote).  *)
(* SpecUploader : the component RIFDocumentUploader, one action per user    *)
(*            event and per awaited call that settles; SpecUploaderFair     *)
(*            adds that every awaited call of an upload settles.            *)
(***************************************************************************)
EXTENDS Integers, Sequences, FiniteSets, TLC

VARIABLES
    records,     \* mapping(bytes32 => StorageRecord): the keys written so far
    recordIds,   \* bytes32[] recordIds
    events,      \* the StorageRecordCreated log of the contract
    balance,     \* value held by the contract itself
    now,         \* block.timestamp of the block being built
    agreements,  \* the broker: the number of agreements it has made
    created,     \* history: the successful createStorageRecord calls, in order
    last,        \* history: the step just taken and its outcome
    kcur,        \* SpecKey: the conversion made in the current call frame
    kprev,       \* SpecKey: the conversion made in the call frame before it
    ccur,        \* SpecClient: the client call just made, its input and result
    file,            \* useState file: its size, NoFile for null
    uploading,       \* useState uploading
    storageOffers,   \* useState storageOffers
    selectedOffer,   \* useState selectedOffer, NoOffer for null
    estimatedCost,   \* useState estimatedCost, NoCost for null
    metadata,        \* useState metadata
    statusMessage,   \* useState statusMessage, "" for null
    statusType,      \* useState statusType
    loaded,          \* loadStorageOffers has settled
    degraded,        \* history: its getStorageOffers returned MOCK_OFFERS
    costDue,         \* the file size of the calculateCost not yet settled
    running,         \* the calls of uploadWithRIFStorage not yet returned, each
                     \* with the createStorageRecord call it has made
    finished         \* history: how the upload call that returned last ended

vars ==
    <<records, recordIds, events, balance, now, agreements, created, last,
      kcur, kprev, ccur,
      file, uploading, storageOffers, selectedOffer, estimatedCost, metadata,
      statusMessage, statusType, loaded, degraded, costDue, running, finished>>
ledgerVars == <<records, recordIds, events, balance, now, agreements, created, last>>
keyVars == <<kcur, kprev>>
clientVars == <<ccur>>
uiVars ==
    <<file, uploading, storageOffers, selectedOffer, estimatedCost, metadata,
      statusMessage, statusType, loaded, degraded, costDue, running, finished>>

---------------------------------------------------------------------------
(* Bounds of the model *)

MaxRecords == 2     \* successful createStorageRecord calls explored
MaxTime == 2        \* block timestamps explored: 1..MaxTime
BaseLen == 30       \* length of the common prefix of the long identifiers
MaxTail == 3        \* long identifiers are BaseLen + 0..MaxTail bytes long
MaxOffers == 2      \* offers in a marketplace response: 0..MaxOffers
MaxMonths == 3      \* durationMonths: 1..MaxMonths
MaxListed == 2      \* offers in the response the uploader loads: 0..MaxListed
MaxInFlight == 2    \* uploadWithRIFStorage calls not yet returned, at most

(* Program constants *)

WordBytes == 32     \* an EVM word / bytes32

---------------------------------------------------------------------------
(* Input domains *)

ZeroAddress == 0
Callers == {1, 2}                    \* msg.sender: an account or a contract
Providers == {3}
Values == {0, 1}                     \* msg.value
\* what a caller submits about a document: identifier, size and category
Documents ==
    {[category |-> "donation_receipt", cid |-> <<>>, fileSize |-> 1],
     [category |-> "donation_receipt", cid |-> <<81>>, fileSize |-> 1],
     [category |-> "project_report", cid |-> <<81>>, fileSize |-> 2]}
ZeroAgreement == 0
\* what the broker answers: a failure, or the handle of its n-th agreement
BrokerRevert == [ok |-> FALSE, id |-> ZeroAgreement]
BrokerResponses(n) == {BrokerRevert, [ok |-> TRUE, id |-> n]}
PeriodLists == {<<>>, <<1>>, <<2>>}  \* billingPeriods / billingPrices

CidBytes == {81, 109}
RECURSIVE SeqsOfLen(_, _)
SeqsOfLen(S, n) ==
    IF n = 0 THEN {<<>>}
    ELSE {Append(s, b) : s \in SeqsOfLen(S, n - 1), b \in S}
Base == [i \in 1..BaseLen |-> 81]
Tails == UNION {SeqsOfLen(CidBytes, n) : n \in 0..MaxTail}
Cids == {<<>>} \cup SeqsOfLen(CidBytes, 1) \cup {Base \o t : t \in Tails}
LedgerCids == {d.cid : d \in Documents}
LedgerSchedules == {<<1>>}

---------------------------------------------------------------------------
(* EVM memory of a call frame and the content key conversion *)

Zeros(n) == [i \in 1..n |-> 0]

\* a uint256 below 2^16 as a big-endian word
Word(n) ==
    [i \in 1..WordBytes |->
        IF i = WordBytes THEN n % 256
        ELSE IF i = WordBytes - 1 THEN (n \div 256) % 256
        ELSE 0]

WordToNat(w) == w[WordBytes - 1] * 256 + w[WordBytes]

PadLen(n) == ((n + WordBytes - 1) \div WordBytes) * WordBytes

\* a `string memory` argument of an external function: the call frame starts
\* with zeroed memory and the argument is copied into it from calldata, as a
\* length word followed by the bytes in a data area of whole words, whose
\* bytes past the length therefore read as zero
MemString(b) == Word(Len(b)) \o b \o Zeros(PadLen(Len(b)) - Len(b))

RECURSIVE MemWords(_)
MemWords(s) == IF s = <<>> THEN <<>> ELSE Word(Head(s)) \o MemWords(Tail(s))

\* a `uint256[] memory` object: length word, then one word per element
MemArray(s) == Word(Len(s)) \o MemWords(s)

\* the memory of the call frame once the arguments are decoded, from the
\* first allocation on: ipfsCid, then billingPeriods, then billingPrices
CallMemory(cid, periods, prices) ==
    MemString(cid) \o MemArray(periods) \o MemArray(prices)

\* mload(p): the word at byte offset p; memory never written reads as zero
mload(mem, p) ==
    IF p + WordBytes <= Len(mem)
    THEN SubSeq(mem, p + 1, p + WordBytes)
    ELSE [i \in 1..WordBytes |-> IF p + i <= Len(mem) THEN mem[p + i] ELSE 0]

ZeroKey == Zeros(WordBytes)

stringToBytes32_NoEmptyTest(mem, source) == mload(mem, source + WordBytes)

stringToBytes32_ReadsAtSource(mem, source) ==
    IF WordToNat(mload(mem, source)) = 0
    THEN ZeroKey
    ELSE mload(mem, source)

stringToBytes32(mem, source) ==
    IF WordToNat(mload(mem, source)) = 0
    THEN ZeroKey
    ELSE mload(mem, source + WordBytes)

\* the conversion as createStorageRecord performs it on its argument
toContentKey(cid, periods, prices) ==
    stringToBytes32(CallMemory(cid, periods, prices), 0)

---------------------------------------------------------------------------
(* The ledger: contract CharityAuditStorage *)

\* struct StorageRecord
StorageRecord_NoUploader(ipfsHash, agreementId, uploader, timestamp, category, fileSize) ==
    [category |-> category,
     fileSize |-> fileSize,
     ipfsHash |-> ipfsHash,
     agreementId |-> agreementId,
     uploader |-> ZeroAddress,
     timestamp |-> timestamp,
     isPinned |-> TRUE]

StorageRecord(ipfsHash, agreementId, uploader, timestamp, category, fileSize) ==
    [category |-> category,
     fileSize |-> fileSize,
     ipfsHash |-> ipfsHash,
     agreementId |-> agreementId,
     uploader |-> uploader,
     timestamp |-> timestamp,
     isPinned |-> TRUE]

\* the value a mapping holds at a key never written
ZeroRecord ==
    [category |-> "", fileSize |-> 0, ipfsHash |-> ZeroKey,
     agreementId |-> ZeroAgreement, uploader |-> ZeroAddress, timestamp |-> 0,
     isPinned |-> FALSE]

\* records[id]
RecordAt(recs, id) == IF id \in DOMAIN recs THEN recs[id] ELSE ZeroRecord

\* records[id] = rec
StoreRecord(recs, id, rec) ==
    [k \in DOMAIN recs \cup {id} |-> IF k = id THEN rec ELSE recs[k]]

\* abi.encodePacked(bytes32, address, uint256): three fixed-width fields
encodePacked(ipfsHash, sender, timestamp) == <<ipfsHash, sender, timestamp>>

\* a word without its trailing zero bytes: one-to-one on words
Significant(w) ==
    LET nonzero == {i \in 1..Len(w) : w[i] # 0}
    IN  IF nonzero = {} THEN <<>>
        ELSE SubSeq(w, 1, CHOOSE i \in nonzero : \A j \in nonzero : j <= i)

\* keccak256 of three packed fields, taken as collision-free: a digest that
\* is one-to-one on its preimages
keccak256(preimage) ==
    <<"keccak256", Significant(preimage[1]), preimage[2], preimage[3]>>

NoId == <<>>

\* recordIds.push(recordId)
PushRecordId_OncePerId(ids, recordId) ==
    IF \E i \in 1..Len(ids) : ids[i] = recordId THEN ids ELSE Append(ids, recordId)

PushRecordId(ids, recordId) == Append(ids, recordId)

\* emit StorageRecordCreated(recordId, ipfsHash, agreementId, msg.sender, category)
EmitStorageRecordCreated_Swapped(log, recordId, ipfsHash, agreementId, sender, category) ==
    Append(log, [category |-> category,
                 ipfsHash |-> recordId,
                 agreementId |-> agreementId,
                 uploader |-> sender,
                 recordId |-> ipfsHash])

EmitStorageRecordCreated(log, recordId, ipfsHash, agreementId, sender, category) ==
    Append(log, [category |-> category,
                 ipfsHash |-> ipfsHash,
                 agreementId |-> agreementId,
                 uploader |-> sender,
                 recordId |-> recordId])

\* the contract's own state
LedgerState ==
    [records |-> records, recordIds |-> recordIds, events |-> events,
     balance |-> balance]

\* IRIFStorage(RIF_STORAGE_CONTRACT).newAgreement{value: msg.value}(...):
\* a high-level external call.  The broker either returns an agreement id and
\* keeps the value sent with the call, or fails, and then the failure
\* propagates to the caller.
newAgreement_Unchecked(st, value, resp) ==
    IF resp.ok
    THEN [ok |-> TRUE,
          agreementId |-> resp.id,
          st |-> [st EXCEPT !.balance = @ - value]]
    ELSE [ok |-> TRUE,
          agreementId |-> ZeroAgreement,
          st |-> st]

newAgreement(st, value, resp) ==
    IF resp.ok
    THEN [ok |-> TRUE,
          agreementId |-> resp.id,
          st |-> [st EXCEPT !.balance = @ - value]]
    ELSE [ok |-> FALSE,
          agreementId |-> ZeroAgreement,
          st |-> st]

\* one createStorageRecord transaction on state st: the outcome, the state it
\* leaves and the value it returns.  A transaction that reverts leaves st.
\* mem is the memory of the call frame, holding the decoded arguments, with
\* ipfsCid at offset 0.
createStorageRecord(st, sender, value, timestamp, mem, provider, fileSize, category, resp) ==
    LET paid == [st EXCEPT !.balance = @ + value]
        ipfsHash == stringToBytes32(mem, 0)
        call == newAgreement(paid, value, resp)
        recordId == keccak256(encodePacked(ipfsHash, sender, timestamp))
        rec == StorageRecord(ipfsHash, call.agreementId, sender, timestamp,
                             category, fileSize)
        stored == [call.st EXCEPT !.records = StoreRecord(@, recordId, rec)]
        pushed == [stored EXCEPT !.recordIds = PushRecordId(@, recordId)]
        emitted == [pushed EXCEPT !.events =
                       EmitStorageRecordCreated(@, recordId, ipfsHash,
                                                call.agreementId, sender, category)]
    IN  IF call.ok
        THEN [ok |-> TRUE, st |-> emitted, ret |-> recordId, derived |-> recordId]
        ELSE [ok |-> FALSE, st |-> st, ret |-> NoId, derived |-> recordId]

\* getRecord(recordId): require(records[recordId].uploader != address(0))
getRecord_NoRequire(recs, recordId) == [ok |-> TRUE, rec |-> RecordAt(recs, recordId)]

getRecord(recs, recordId) ==
    IF RecordAt(recs, recordId).uploader # ZeroAddress
    THEN [ok |-> TRUE, rec |-> RecordAt(recs, recordId)]
    ELSE [ok |-> FALSE, rec |-> ZeroRecord]

\* getAllRecordIds()
getAllRecordIds(ids) == ids

---------------------------------------------------------------------------
(* The marketplace client: class RIFStorageClient                          *)
(* Units: avgBillingPrice in 0.00001 RBTC, availableCapacity in GB,         *)
(* plan amount in 10^13 wei; a cost is amount * bytes, that is RBTC scaled  *)
(* by 10^5 * 1024^3, kept exact.                                            *)

Plan(id, amount) == [id |-> id, amount |-> amount, period |-> 86400 * 30]

\* MOCK_OFFERS
MOCK_OFFERS ==
    <<[provider |-> "0x1234567890123456789012345678901234567890",
       peerId |-> "QmXProviderPeerId123456789",
       avgBillingPrice |-> 1, availableCapacity |-> 100,
       plans |-> <<Plan("1", 1)>>],
      [provider |-> "0x0987654321098765432109876543210987654321",
       peerId |-> "QmYProviderPeerId987654321",
       avgBillingPrice |-> 2, availableCapacity |-> 50,
       plans |-> <<Plan("1", 2)>>]>>

\* offers a marketplace response may list
LiveOffers ==
    {[provider |-> "a", peerId |-> "Qa", avgBillingPrice |-> 1,
      availableCapacity |-> 5, plans |-> <<Plan("1", 3)>>],
     [provider |-> "b", peerId |-> "Qb", avgBillingPrice |-> 1,
      availableCapacity |-> 5, plans |-> <<Plan("2", 5), Plan("3", 1)>>],
     [provider |-> "c", peerId |-> "Qc", avgBillingPrice |-> 0,
      availableCapacity |-> 0, plans |-> <<Plan("1", 1)>>],
     [provider |-> "d", peerId |-> "Qd", avgBillingPrice |-> 0,
      availableCapacity |-> 5, plans |-> <<>>],
     [provider |-> "e", peerId |-> "Qe", avgBillingPrice |-> 3,
      availableCapacity |-> 5, plans |-> <<Plan("1", 4)>>]}

\* how axios.get(..., { timeout: 5000 }) settles: it rejects (timeout, network
\* error, error status), or resolves with a body that is empty, a non-array
\* value, or an array
FetchOutcomes ==
    {[kind |-> k, data |-> <<>>] :
        k \in {"timeout", "networkError", "httpError", "empty", "object"}}
    \cup {[kind |-> "array", data |-> d] :
            d \in UNION {SeqsOfLen(LiveOffers, n) : n \in 0..MaxOffers}}

Rejected(resp) == resp.kind \in {"timeout", "networkError", "httpError"}
Truthy(resp) == resp.kind # "empty"
IsArray(resp) == resp.kind = "array"

\* getStorageOffers(): the offers it resolves with
getStorageOffers_NoLengthTest(resp) ==
    IF ~Rejected(resp) /\ Truthy(resp) /\ IsArray(resp)
    THEN [ok |-> TRUE, offers |-> resp.data]
    ELSE [ok |-> TRUE, offers |-> MOCK_OFFERS]

getStorageOffers(resp) ==
    IF ~Rejected(resp) /\ Truthy(resp) /\ IsArray(resp) /\ Len(resp.data) > 0
    THEN [ok |-> TRUE, offers |-> resp.data]
    ELSE [ok |-> TRUE, offers |-> MOCK_OFFERS]

\* offers.filter(offer => offer.availableCapacity > 0 && offer.plans.length > 0)
IsActive(offer) == offer.availableCapacity > 0 /\ Len(offer.plans) > 0

ActiveOffers(offers) == SelectSeq(offers, IsActive)

\* activeOffers.sort((a, b) => a.avgBillingPrice - b.avgBillingPrice):
\* Array.prototype.sort is stable
RECURSIVE InsertAscending(_, _)
InsertAscending(sorted, x) ==
    IF sorted = <<>> THEN <<x>>
    ELSE IF sorted[Len(sorted)].avgBillingPrice - x.avgBillingPrice <= 0
         THEN Append(sorted, x)
         ELSE Append(InsertAscending(SubSeq(sorted, 1, Len(sorted) - 1), x),
                     sorted[Len(sorted)])

RECURSIVE InsertDescending(_, _)
InsertDescending(sorted, x) ==
    IF sorted = <<>> THEN <<x>>
    ELSE IF x.avgBillingPrice - sorted[Len(sorted)].avgBillingPrice <= 0
         THEN Append(sorted, x)
         ELSE Append(InsertDescending(SubSeq(sorted, 1, Len(sorted) - 1), x),
                     sorted[Len(sorted)])

RECURSIVE SortByPrice_Descending(_)
SortByPrice_Descending(offers) ==
    IF offers = <<>> THEN <<>>
    ELSE InsertDescending(SortByPrice_Descending(SubSeq(offers, 1, Len(offers) - 1)),
                          offers[Len(offers)])

RECURSIVE SortByPrice(_)
SortByPrice(offers) ==
    IF offers = <<>> THEN <<>>
    ELSE InsertAscending(SortByPrice(SubSeq(offers, 1, Len(offers) - 1)),
                         offers[Len(offers)])

NoOffer ==
    [provider |-> "", peerId |-> "", avgBillingPrice |-> 0,
     availableCapacity |-> 0, plans |-> <<>>]

\* return MOCK_OFFERS[0], when the filter left nothing
FallbackOffer_FirstListed(offers) == [ok |-> TRUE, offer |-> offers[1]]

FallbackOffer(offers) ==
    [ok |-> TRUE,
     offer |-> IF Len(MOCK_OFFERS) > 0 THEN MOCK_OFFERS[1] ELSE NoOffer]

\* getBestOffer()
getBestOffer(resp) ==
    LET offers == getStorageOffers(resp).offers
        activeOffers == ActiveOffers(offers)
    IN  IF Len(activeOffers) = 0
        THEN FallbackOffer(offers)
        ELSE [ok |-> TRUE, offer |-> SortByPrice(activeOffers)[1]]

\* const plan = offer.plans[0]
SelectPlan_Cheapest(offer) ==
    CHOOSE p \in {offer.plans[i] : i \in 1..Len(offer.plans)} :
        \A i \in 1..Len(offer.plans) : p.amount <= offer.plans[i].amount

SelectPlan(offer) == offer.plans[1]

NoCost ==
    [period |-> 0, offerId |-> "", planId |-> "", monthlyCostRBTC |-> 0,
     totalCostRBTC |-> 0, providerPeerId |-> ""]

\* calculateStorageCost(fileSizeBytes, durationMonths)
calculateStorageCost(resp, fileSizeBytes, durationMonths) ==
    LET best == getBestOffer(resp)
        offer == best.offer
        plan == SelectPlan(offer)
        monthlyCost == plan.amount * fileSizeBytes
        totalCost == monthlyCost * durationMonths
    IN  IF best.ok
        THEN [ok |-> TRUE, offer |-> offer,
              cost |-> [period |-> plan.period, offerId |-> offer.provider,
                        planId |-> plan.id, monthlyCostRBTC |-> monthlyCost,
                        totalCostRBTC |-> totalCost,
                        providerPeerId |-> offer.peerId]]
        ELSE [ok |-> FALSE, offer |-> NoOffer, cost |-> NoCost]

FileSizes == {1, 2}
Months == 1..MaxMonths

NoClientCall ==
    [ok |-> FALSE,
     resp |-> [kind |-> "empty", data |-> <<>>],
     offers |-> <<>>,
     offer |-> NoOffer,
     cost |-> NoCost,
     op |-> "none",
     size |-> 0,
     months |-> 0,
     unit |-> NoCost]

InitClient == ccur = NoClientCall

\* a call of getStorageOffers, the fetch settling as resp
GetStorageOffers ==
    \E resp \in FetchOutcomes :
      \E out \in {getStorageOffers(resp)} :
        /\ ccur' = [ok |-> out.ok,
                    resp |-> resp,
                    offers |-> out.offers,
                    offer |-> NoOffer,
                    cost |-> NoCost,
                    op |-> "getStorageOffers",
                    size |-> 0,
                    months |-> 0,
                    unit |-> NoCost]
        /\ UNCHANGED <<ledgerVars, keyVars, uiVars>>

\* a call of getBestOffer
GetBestOffer ==
    \E resp \in FetchOutcomes :
      \E out \in {getBestOffer(resp)} :
        /\ ccur' = [ok |-> out.ok,
                    resp |-> resp,
                    offers |-> <<>>,
                    offer |-> out.offer,
                    cost |-> NoCost,
                    op |-> "getBestOffer",
                    size |-> 0,
                    months |-> 0,
                    unit |-> NoCost]
        /\ UNCHANGED <<ledgerVars, keyVars, uiVars>>

\* a call of calculateStorageCost(size, months); unit is what the call with
\* durationMonths = 1 returns for the same size against the same answer of
\* the marketplace
CalculateStorageCost ==
    \E resp \in FetchOutcomes, size \in FileSizes, months \in Months :
      \E out \in {calculateStorageCost(resp, size, months)} :
        /\ ccur' = [ok |-> out.ok,
                    resp |-> resp,
                    offers |-> <<>>,
                    offer |-> out.offer,
                    cost |-> out.cost,
                    op |-> "calculateStorageCost",
                    size |-> size,
                    months |-> months,
                    unit |-> calculateStorageCost(resp, size, 1).cost]
        /\ UNCHANGED <<ledgerVars, keyVars, uiVars>>

NextClient ==
    \/ GetStorageOffers
    \/ GetBestOffer
    \/ CalculateStorageCost

---------------------------------------------------------------------------
(* The uploader: component RIFDocumentUploader                              *)

NoFile == 0

\* offers the marketplace may list when the uploader loads or quotes
ListedOffers ==
    {o \in LiveOffers : o.provider \in {"a", "c", "e"}}

LoadOutcomes ==
    {r \in FetchOutcomes : r.kind # "array"}
    \cup {[kind |-> "array", data |-> d] :
            d \in UNION {SeqsOfLen(ListedOffers, n) : n \in 0..MaxListed}}

\* the catch of getStorageOffers was taken
UsedFallback(resp) == getStorageOffers(resp).offers # resp.data \/ resp.data = <<>>

\* offers.filter(o => o.availableCapacity > 0)
HasCapacity(o) == o.availableCapacity > 0

\* storageOffers.find(o => o.provider === value)
RECURSIVE FindProvider(_, _)
FindProvider(offers, value) ==
    IF offers = <<>> THEN NoOffer
    ELSE IF Head(offers).provider = value THEN Head(offers)
    ELSE FindProvider(Tail(offers), value)

\* ethers.parseEther(x.toFixed(18)): the cost, held in units of
\* 10^13 / 1024^3 wei (= 5^13 / 2^17), rounded to a whole number of wei
UnitNumerator == 1220703125
UnitDenominator == 131072
parseEtherFixed(cost) ==
    cost * (UnitNumerator \div UnitDenominator)
    + (2 * cost * (UnitNumerator % UnitDenominator) + UnitDenominator)
        \div (2 * UnitDenominator)

NoCall ==
    [category |-> "",
     fileSize |-> 0,
     value |-> 0,
     provider |-> "",
     ipfsCid |-> "",
     made |-> FALSE,
     billingPeriods |-> <<>>,
     billingPrices |-> <<>>,
     quotedFrom |-> ""]

\* no upload call has returned yet
NoAttempt == [reported |-> "none", receipt |-> FALSE]

InitUploader ==
    /\ file = NoFile
    /\ uploading = FALSE
    /\ storageOffers = <<>>
    /\ selectedOffer = NoOffer
    /\ estimatedCost = NoCost
    /\ metadata = [category |-> "donation_receipt"]
    /\ statusMessage = ""
    /\ statusType = "info"
    /\ loaded = FALSE
    /\ degraded = FALSE
    /\ costDue = NoFile
    /\ running = <<>>
    /\ finished = NoAttempt

\* useEffect(..., [file, selectedOffer]): the size calculateCost is called
\* with after a render in which file or selectedOffer changed
EffectCost(changed, f, offer) ==
    IF changed /\ f # NoFile /\ offer # NoOffer THEN f ELSE costDue

\* loadStorageOffers, from the mount effect, its fetch settling as resp
LoadStorageOffers ==
    /\ ~loaded
    /\ \E resp \in LoadOutcomes :
        \E out \in {getStorageOffers(resp)} :
          \E activeOffers \in {SelectSeq(out.offers, HasCapacity)} :
            /\ loaded' = TRUE
            /\ degraded' = UsedFallback(resp)
            /\ IF out.ok
               THEN /\ storageOffers' = activeOffers
                    /\ selectedOffer' = IF Len(activeOffers) > 0
                                        THEN activeOffers[1] ELSE selectedOffer
                    /\ UNCHANGED <<statusMessage, statusType>>
               ELSE /\ statusMessage' = "Failed to load storage providers. Using mock data."
                    /\ statusType' = "error"
                    /\ UNCHANGED <<storageOffers, selectedOffer>>
            /\ costDue' = EffectCost(selectedOffer' # selectedOffer, file, selectedOffer')
    /\ UNCHANGED <<file, uploading, estimatedCost, metadata, running, finished>>
    /\ UNCHANGED <<ledgerVars, keyVars, clientVars>>

\* handleFileChange: the file input is disabled while uploading
HandleFileChange ==
    /\ ~uploading
    /\ \E size \in FileSizes :
        /\ file' = size
        /\ costDue' = EffectCost(TRUE, size, selectedOffer)
    /\ UNCHANGED <<uploading, storageOffers, selectedOffer, estimatedCost, metadata>>
    /\ UNCHANGED <<statusMessage, statusType, loaded, degraded, running, finished>>
    /\ UNCHANGED <<ledgerVars, keyVars, clientVars>>

\* onChange of the provider select, disabled while uploading or without offers
SelectProvider ==
    /\ ~(uploading \/ Len(storageOffers) = 0)
    /\ \E i \in 1..Len(storageOffers) :
        \E offer \in {FindProvider(storageOffers, storageOffers[i].provider)} :
          /\ selectedOffer' = offer
          /\ costDue' = EffectCost(offer # selectedOffer, file, offer)
    /\ UNCHANGED <<file, uploading, storageOffers, estimatedCost, metadata>>
    /\ UNCHANGED <<statusMessage, statusType, loaded, degraded, running, finished>>
    /\ UNCHANGED <<ledgerVars, keyVars, clientVars>>

\* calculateCost settles: rifStorage.calculateStorageCost(file.size, 1)
CalculateCost ==
    /\ costDue # NoFile
    /\ \E resp \in LoadOutcomes :
        \E out \in {calculateStorageCost(resp, costDue, 1)} :
          estimatedCost' = IF out.ok THEN out.cost ELSE estimatedCost
    /\ costDue' = NoFile
    /\ UNCHANGED <<file, uploading, storageOffers, selectedOffer, metadata>>
    /\ UNCHANGED <<statusMessage, statusType, loaded, degraded, running, finished>>
    /\ UNCHANGED <<ledgerVars, keyVars, clientVars>>

\* disabled={!file || !selectedOffer || uploading}
ButtonDisabled_IgnoresUploading == file = NoFile \/ selectedOffer = NoOffer

ButtonDisabled == file = NoFile \/ selectedOffer = NoOffer \/ uploading

\* a click on the button: uploadWithRIFStorage up to its first await
ClickUpload ==
    /\ ~ButtonDisabled
    /\ Len(running) < MaxInFlight
    /\ IF file = NoFile \/ selectedOffer = NoOffer \/ estimatedCost = NoCost
       THEN UNCHANGED <<uploading, statusMessage, statusType, running>>
       ELSE /\ uploading' = TRUE
            /\ statusMessage' = "Uploading to IPFS..."
            /\ statusType' = "info"
            /\ running' = Append(running,
                 [file |-> file,
                  selectedOffer |-> selectedOffer,
                  estimatedCost |-> estimatedCost,
                  category |-> metadata.category,
                  ipfsCid |-> "",
                  pc |-> "uploadToIPFS",
                  submitted |-> NoCall])
    /\ UNCHANGED <<file, storageOffers, selectedOffer, estimatedCost, metadata>>
    /\ UNCHANGED <<loaded, degraded, costDue, finished>>
    /\ UNCHANGED <<ledgerVars, keyVars, clientVars>>

Without(s, i) == SubSeq(s, 1, i - 1) \o SubSeq(s, i + 1, Len(s))

\* the catch block of uploadWithRIFStorage, entered by call i
Failed(i) ==
    /\ statusMessage' = "Error: upload failed"
    /\ statusType' = "error"
    /\ uploading' = FALSE
    /\ finished' = [reported |-> "error", receipt |-> FALSE]
    /\ running' = Without(running, i)

\* call i moves on to its next await
Proceed(i, pc, message) ==
    /\ running' = [running EXCEPT ![i].pc = pc]
    /\ statusMessage' = message
    /\ UNCHANGED <<statusType, uploading, finished>>

UploaderFrame ==
    /\ UNCHANGED <<file, storageOffers, selectedOffer, estimatedCost, metadata>>
    /\ UNCHANGED <<loaded, degraded, costDue>>
    /\ UNCHANGED <<ledgerVars, keyVars, clientVars>>

\* rifStorage.uploadToIPFS settles: it resolves with the content identifier
\* or, when the node fails, with the mock one; then window.ethereum is tested
UploadToIPFSSettles ==
    /\ \E i \in 1..Len(running) :
        /\ running[i].pc = "uploadToIPFS"
        /\ \E cid \in {"QmAdded", "QmXyZ1234567890abcdef1234567890abcdef123456"},
              ethereum \in BOOLEAN :
            IF ethereum
            THEN /\ running' = [running EXCEPT ![i].pc = "eth_requestAccounts",
                                               ![i].ipfsCid = cid]
                 /\ statusMessage' = "Waiting for wallet confirmation..."
                 /\ UNCHANGED <<statusType, uploading, finished>>
            ELSE Failed(i)
    /\ UploaderFrame

\* provider.send('eth_requestAccounts', []) settles
RequestAccountsSettles ==
    /\ \E i \in 1..Len(running) :
        /\ running[i].pc = "eth_requestAccounts"
        /\ \E ok \in BOOLEAN :
            IF ok
            THEN Proceed(i, "getSigner", "Waiting for wallet confirmation...")
            ELSE Failed(i)
    /\ UploaderFrame

\* provider.getSigner() settles; the call goes on to prepare the billing
\* parameters and to call contract.createStorageRecord
GetSignerSettles ==
    /\ \E i \in 1..Len(running) :
        /\ running[i].pc = "getSigner"
        /\ \E ok \in BOOLEAN :
            IF ok
            THEN /\ running' = [running EXCEPT
                      ![i].pc = "createStorageRecord",
                      ![i].submitted =
                        [category |-> running[i].category,
                         fileSize |-> running[i].file,
                         value |-> parseEtherFixed(running[i].estimatedCost.totalCostRBTC),
                         provider |-> running[i].selectedOffer.provider,
                         ipfsCid |-> running[i].ipfsCid,
                         made |-> TRUE,
                         billingPeriods |-> <<running[i].estimatedCost.period>>,
                         billingPrices |->
                           <<parseEtherFixed(running[i].estimatedCost.monthlyCostRBTC)>>,
                         quotedFrom |-> running[i].estimatedCost.offerId]]
                 /\ statusMessage' = "Executing smart contract transaction..."
                 /\ UNCHANGED <<statusType, uploading, finished>>
            ELSE Failed(i)
    /\ UploaderFrame

\* contract.createStorageRecord(...) settles: the transaction is sent, or the
\* wallet or the node rejects it
CreateStorageRecordSettles ==
    /\ \E i \in 1..Len(running) :
        /\ running[i].pc = "createStorageRecord"
        /\ \E ok \in BOOLEAN :
            IF ok
            THEN Proceed(i, "wait",
                         "Transaction submitted! Waiting for confirmation...")
            ELSE Failed(i)
    /\ UploaderFrame

\* tx.wait() settles: with the receipt of the mined transaction, or it
\* rejects (reverted, replaced, dropped)
WaitSettles ==
    /\ \E i \in 1..Len(running) :
        /\ running[i].pc = "wait"
        /\ \E ok \in BOOLEAN :
            IF ok
            THEN /\ statusMessage' = "Success! Document stored securely."
                 /\ statusType' = "success"
                 /\ uploading' = FALSE
                 /\ finished' = [reported |-> "success", receipt |-> TRUE]
                 /\ running' = Without(running, i)
            ELSE Failed(i)
    /\ UploaderFrame

Settle ==
    \/ UploadToIPFSSettles
    \/ RequestAccountsSettles
    \/ GetSignerSettles
    \/ CreateStorageRecordSettles
    \/ WaitSettles

NextUploader ==
    \/ LoadStorageOffers
    \/ HandleFileChange
    \/ SelectProvider
    \/ CalculateCost
    \/ ClickUpload
    \/ UploadToIPFSSettles
    \/ RequestAccountsSettles
    \/ GetSignerSettles
    \/ CreateStorageRecordSettles
    \/ WaitSettles

---------------------------------------------------------------------------
(* The ledger as a state machine *)

InitLedger ==
    /\ records = <<>>
    /\ recordIds = <<>>
    /\ events = <<>>
    /\ balance = 0
    /\ now = 1
    /\ agreements = 0
    /\ created = <<>>
    /\ last = [ok |-> FALSE,
               id |-> NoId,
               op |-> "none",
               brokerOk |-> FALSE]

NoConversion == [cid |-> <<>>, periods |-> <<>>, made |-> FALSE, key |-> ZeroKey]

InitKey ==
    /\ kcur = NoConversion
    /\ kprev = NoConversion

Init == InitLedger /\ InitKey /\ InitClient /\ InitUploader

\* a transaction calling createStorageRecord; last.id is the id the call
\* derived, whether it returned it or reverted.  MaxRecords caps the calls the
\* broker accepts.
CreateStorageRecord ==
    \E doc \in Documents, schedule \in LedgerSchedules :
      \E mem \in {CallMemory(doc.cid, schedule, schedule)} :
        \E sender \in Callers, value \in Values, provider \in Providers,
           resp \in BrokerResponses(agreements + 1) :
          /\ resp.ok => Len(created) < MaxRecords
          /\ \E out \in {createStorageRecord(LedgerState, sender, value, now, mem,
                                            provider, doc.fileSize, doc.category,
                                            resp)} :
            /\ records' = out.st.records
            /\ recordIds' = out.st.recordIds
            /\ events' = out.st.events
            /\ balance' = out.st.balance
            /\ agreements' = IF resp.ok THEN resp.id ELSE agreements
            /\ created' =
                 IF out.ok
                 THEN Append(created,
                        [category |-> doc.category,
                         cid |-> doc.cid,
                         fileSize |-> doc.fileSize,
                         id |-> out.ret,
                         agreementId |-> resp.id,
                         uploader |-> sender,
                         timestamp |-> now])
                 ELSE created
            /\ last' = [ok |-> out.ok,
                        id |-> out.derived,
                        op |-> "createStorageRecord",
                        brokerOk |-> resp.ok]
            /\ UNCHANGED now
            /\ UNCHANGED <<keyVars, clientVars, uiVars>>

\* the ids a caller may ask for: every id a call can derive, and more
ProbeIds ==
    {keccak256(encodePacked(h, a, t)) :
        h \in {toContentKey(c, <<>>, <<>>) : c \in LedgerCids},
        a \in Callers \cup {ZeroAddress}, t \in 1..MaxTime}

\* a call of the view getRecord
GetRecord ==
    \E id \in ProbeIds :
        /\ last' = [ok |-> getRecord(records, id).ok,
                    id |-> id,
                    op |-> "getRecord",
                    brokerOk |-> FALSE]
        /\ UNCHANGED <<records, recordIds, events, balance, now, agreements, created>>
        /\ UNCHANGED <<keyVars, clientVars, uiVars>>

\* a call of the view getAllRecordIds
GetAllRecordIds ==
    /\ last' = [ok |-> TRUE,
                id |-> NoId,
                op |-> "getAllRecordIds",
                brokerOk |-> FALSE]
    /\ UNCHANGED <<records, recordIds, events, balance, now, agreements, created>>
    /\ UNCHANGED <<keyVars, clientVars, uiVars>>

\* the chain moves on to a later block
NewBlock ==
    /\ now < MaxTime
    /\ now' = now + 1
    /\ last' = [ok |-> TRUE,
                id |-> NoId,
                op |-> "newBlock",
                brokerOk |-> FALSE]
    /\ UNCHANGED <<records, recordIds, events, balance, agreements, created>>
    /\ UNCHANGED <<keyVars, clientVars, uiVars>>

Next ==
    \/ CreateStorageRecord
    \/ GetRecord
    \/ GetAllRecordIds
    \/ NewBlock

Spec == Init /\ [][Next]_vars

---------------------------------------------------------------------------
(* The content key conversion over successive call frames *)

\* a call frame is entered with identifier cid and a billing schedule, and
\* converts the identifier as createStorageRecord does
Convert ==
    \E cid \in Cids, periods \in PeriodLists :
        /\ kprev' = kcur
        /\ kcur' = [cid |-> cid,
                    periods |-> periods,
                    made |-> TRUE,
                    key |-> toContentKey(cid, periods, periods)]
        /\ UNCHANGED <<ledgerVars, clientVars, uiVars>>

NextKey == Convert

SpecKey == Init /\ [][NextKey]_vars

SpecClient == Init /\ [][NextClient]_vars

SpecUploader == Init /\ [][NextUploader]_vars

\* every awaited call of a running upload settles
SpecUploaderFair == SpecUploader /\ WF_vars(Settle)

---------------------------------------------------------------------------
(* Properties of the ledger *)

ReturnedIds == {created[i].id : i \in 1..Len(created)}

Occurrences(ids, id) == Cardinality({i \in 1..Len(ids) : ids[i] = id})

\* getRecord(c.id) succeeds and returns exactly what the call c submitted
ReadsBack(c) ==
    LET r == getRecord(records, c.id)
    IN  /\ r.ok
        /\ r.rec.ipfsHash = toContentKey(c.cid, <<>>, <<>>)
        /\ r.rec.agreementId = c.agreementId
        /\ r.rec.uploader = c.uploader
        /\ r.rec.timestamp = c.timestamp
        /\ r.rec.category = c.category
        /\ r.rec.fileSize = c.fileSize
        /\ r.rec.isPinned = TRUE

\* C1: for every successful createStorageRecord call, in every later state,
\* getRecord of the returned id succeeds and returns exactly the content key
\* of the submitted identifier, the agreement id the broker returned for the
\* call, the caller, the block timestamp of the call, the category, the size
\* and pinned = true.
C1_CreatedRecordsReadBackExact ==
    \A i \in 1..Len(created) : ReadsBack(created[i])

\* C2: a createStorageRecord call whose broker call fails, fails as a whole
\* and leaves records, recordIds (and its length), the event log and the
\* value held by the ledger as they were before the call.
C2_BrokerFailureLeavesLedgerUnchanged ==
    [][(last'.op = "createStorageRecord" /\ ~last'.brokerOk)
         => /\ ~last'.ok
            /\ records' = records
            /\ recordIds' = recordIds
            /\ Len(recordIds') = Len(recordIds)
            /\ events' = events
            /\ balance' = balance]_vars

C2_Witness ==
    /\ last.op = "createStorageRecord"
    /\ ~last.brokerOk
    /\ ~last.ok
    /\ Len(recordIds) >= 1

\* C3: getAllRecordIds returns as many ids as createStorageRecord calls have
\* succeeded, the i-th being the id the i-th successful call returned.
C3_IndexIsCallOrder ==
    /\ Len(getAllRecordIds(recordIds)) = Len(created)
    /\ \A i \in 1..Len(created) : getAllRecordIds(recordIds)[i] = created[i].id

C3_Witness ==
    /\ Len(recordIds) >= 2
    /\ recordIds[1] = recordIds[2]
    /\ last.op = "getAllRecordIds"

\* C4: a record is stored at records[id] if and only if id occurs exactly
\* once in recordIds; no id is appended twice.
C4_StoredIffIndexedOnce ==
    \A id \in ProbeIds :
        (RecordAt(records, id).uploader # ZeroAddress)
            <=> (Occurrences(recordIds, id) = 1)

\* C5: once records[id] holds a record, every field of it keeps its value
\* in every later state.
C5_StoredRecordsImmutable ==
    [][\A id \in DOMAIN records : RecordAt(records', id) = records[id]]_vars

\* C6: a createStorageRecord call whose derived id is the id of a stored
\* record fails, leaving the stored record and the index unchanged.
C6_DuplicateIdRejected ==
    [][(/\ last'.op = "createStorageRecord"
        /\ last'.brokerOk
        /\ RecordAt(records, last'.id).uploader # ZeroAddress)
         => /\ ~last'.ok
            /\ records' = records
            /\ recordIds' = recordIds]_vars

\* C7: getRecord fails for every id no successful createStorageRecord call
\* returned; it succeeds only for returned ids.
C7_GetRecordOnlyForReturnedIds ==
    /\ \A id \in ProbeIds : getRecord(records, id).ok => id \in ReturnedIds
    /\ (last.op = "getRecord" /\ last.ok) => last.id \in ReturnedIds

C7_Witness ==
    /\ last.op = "getRecord"
    /\ ~last.ok
    /\ last.id \notin ReturnedIds
    /\ Len(created) >= 1

\* C8: every record whose id is in recordIds has a non-zero uploader, so
\* getRecord reports it as present.
C8_IndexedRecordsHaveUploader ==
    \A i \in 1..Len(recordIds) :
        /\ RecordAt(records, recordIds[i]).uploader # ZeroAddress
        /\ getRecord(records, recordIds[i]).ok

C8_Witness ==
    /\ last.op = "getRecord"
    /\ last.ok
    /\ \E i \in 1..Len(recordIds) : recordIds[i] = last.id

\* C9: every successful createStorageRecord call appends exactly one
\* StorageRecordCreated event carrying the recordId, content key, agreement
\* id, uploader and category of the record that call stored, and failed
\* calls append none: there are as many events as recordIds, the i-th
\* event's recordId being recordIds[i].
C9_OneEventPerRecord ==
    /\ Len(events) = Len(recordIds)
    /\ Len(events) = Len(created)
    /\ \A i \in 1..Len(events) :
        /\ events[i].recordId = recordIds[i]
        /\ i <= Len(created) =>
            /\ events[i].recordId = created[i].id
            /\ events[i].ipfsHash = toContentKey(created[i].cid, <<>>, <<>>)
            /\ events[i].agreementId = created[i].agreementId
            /\ events[i].uploader = created[i].uploader
            /\ events[i].category = created[i].category
    /\ (last.op = "createStorageRecord" /\ last.ok) =>
        LET e == events[Len(events)]
            r == RecordAt(records, last.id)
        IN  /\ e.recordId = last.id
            /\ e.ipfsHash = r.ipfsHash
            /\ e.agreementId = r.agreementId
            /\ e.uploader = r.uploader
            /\ e.category = r.category

C9_Witness ==
    /\ Len(events) >= 2
    /\ last.op = "createStorageRecord"
    /\ ~last.ok

---------------------------------------------------------------------------
(* Properties of the content key conversion *)

IsWord(w) == DOMAIN w = 1..WordBytes /\ \A i \in 1..WordBytes : w[i] \in 0..255

\* C10: stringToBytes32 always yields a 32-byte key; the empty identifier
\* yields the all-zero key; two conversions of the same identifier yield the
\* same key, whatever else the call frames hold.
C10_KeyIsFunctionOfIdentifier ==
    /\ kcur.made => IsWord(kcur.key)
    /\ (kcur.made /\ kcur.cid = <<>>) => kcur.key = ZeroKey
    /\ (kcur.made /\ kprev.made /\ kcur.cid = kprev.cid) => kcur.key = kprev.key

C10_Witness ==
    /\ kcur.made
    /\ kprev.made
    /\ kcur.cid = <<>>
    /\ kprev.cid = <<>>
    /\ kcur.periods = <<1>>
    /\ kprev.periods = <<>>

\* the first 32 bytes of s, right-padded with zero bytes
FirstWordPadded(s) == [i \in 1..WordBytes |-> IF i <= Len(s) THEN s[i] ELSE 0]

\* C11: the key of a non-empty identifier is its first 32 bytes, right-padded
\* with zero bytes when it is shorter; two identifiers that agree on their
\* first 32 bytes have the same key.
C11_KeyIsFirstWordZeroPadded ==
    /\ (kcur.made /\ kcur.cid # <<>>) =>
          \A i \in 1..WordBytes : kcur.key[i] = FirstWordPadded(kcur.cid)[i]
    /\ (/\ kcur.made /\ kprev.made
        /\ Len(kcur.cid) >= WordBytes /\ Len(kprev.cid) >= WordBytes
        /\ SubSeq(kcur.cid, 1, WordBytes) = SubSeq(kprev.cid, 1, WordBytes))
          => kcur.key = kprev.key

C11_WitnessTruncated ==
    /\ kcur.made
    /\ kprev.made
    /\ Len(kcur.cid) > WordBytes
    /\ Len(kprev.cid) > WordBytes
    /\ kcur.cid # kprev.cid
    /\ kcur.key = kprev.key

---------------------------------------------------------------------------
(* Properties of the marketplace client *)

NonEmptyArray(resp) == resp.kind = "array" /\ Len(resp.data) > 0

\* C12: getStorageOffers never fails and never returns an empty sequence: it
\* returns a non-empty array response as it is, and MOCK_OFFERS for every
\* other outcome of the fetch.
C12_OffersNeverEmpty ==
    ccur.op = "getStorageOffers" =>
        /\ ccur.ok
        /\ Len(ccur.offers) > 0
        /\ NonEmptyArray(ccur.resp) => ccur.offers = ccur.resp.data
        /\ ~NonEmptyArray(ccur.resp) => ccur.offers = MOCK_OFFERS

C12_Witness ==
    /\ ccur.op = "getStorageOffers"
    /\ ccur.resp.kind = "array"
    /\ ccur.resp.data = <<>>
    /\ ccur.offers = MOCK_OFFERS

\* the places of the listed offers that pass the filter of getBestOffer
ActivePlaces(listed) == {i \in 1..Len(listed) : IsActive(listed[i])}

\* C14: when a listed offer has capacity and a plan, getBestOffer returns a
\* listed offer with capacity and a plan whose average price is the least
\* among those, and of the offers at that price the first listed.
C14_BestIsFirstCheapestActive ==
    LET listed == getStorageOffers(ccur.resp).offers
    IN  (ccur.op = "getBestOffer" /\ ActivePlaces(listed) # {}) =>
            /\ ccur.ok
            /\ \E i \in ActivePlaces(listed) :
                /\ ccur.offer = listed[i]
                /\ \A j \in ActivePlaces(listed) :
                    /\ listed[i].avgBillingPrice <= listed[j].avgBillingPrice
                    /\ listed[j].avgBillingPrice = listed[i].avgBillingPrice
                          => i <= j

C14_Witness ==
    /\ ccur.op = "getBestOffer"
    /\ ccur.resp.kind = "array"
    /\ Len(ccur.resp.data) = 2
    /\ ccur.resp.data[1].provider = "b"
    /\ ccur.resp.data[2].provider = "a"
    /\ ccur.offer.provider = "b"

\* C15: getBestOffer fails only if MOCK_OFFERS is empty; otherwise, also when
\* no listed offer has capacity and a plan, it returns an offer that has
\* capacity and a plan.
C15_BestOfferIsActive ==
    ccur.op = "getBestOffer" =>
        /\ ~ccur.ok => Len(MOCK_OFFERS) = 0
        /\ Len(MOCK_OFFERS) > 0 => ccur.ok /\ IsActive(ccur.offer)

C15_Witness ==
    /\ ccur.op = "getBestOffer"
    /\ NonEmptyArray(ccur.resp)
    /\ ActivePlaces(ccur.resp.data) = {}
    /\ ccur.ok
    /\ ccur.offer = MOCK_OFFERS[1]

\* C16: calculateStorageCost prices with the plan at index 0 of the offer it
\* uses, its total is monthlyCost * durationMonths, and the quote for n
\* months is n times the quote for one month, with the same monthly cost.
C16_QuoteUsesFirstPlanAndIsLinear ==
    (ccur.op = "calculateStorageCost" /\ ccur.ok) =>
        /\ ccur.offer = getBestOffer(ccur.resp).offer
        /\ ccur.cost.offerId = ccur.offer.provider
        /\ ccur.cost.planId = ccur.offer.plans[1].id
        /\ ccur.cost.period = ccur.offer.plans[1].period
        /\ ccur.cost.monthlyCostRBTC = ccur.offer.plans[1].amount * ccur.size
        /\ ccur.cost.totalCostRBTC = ccur.cost.monthlyCostRBTC * ccur.months
        /\ ccur.cost.totalCostRBTC = ccur.months * ccur.unit.totalCostRBTC
        /\ ccur.cost.monthlyCostRBTC = ccur.unit.monthlyCostRBTC

C16_Witness ==
    /\ ccur.op = "calculateStorageCost"
    /\ ccur.ok
    /\ ccur.offer.provider = "b"
    /\ ccur.months = 3
    /\ ccur.size = 2
    /\ ccur.cost.totalCostRBTC = 30

---------------------------------------------------------------------------
(* Properties of the uploader *)

\* C13: when loadStorageOffers got MOCK_OFFERS from getStorageOffers instead
\* of a live list, the uploader shows a status that tells so: before any
\* upload has replaced it, the status message is set.
C13_FallbackIsSurfaced ==
    (loaded /\ degraded /\ running = <<>> /\ finished = NoAttempt)
        => statusMessage # ""

\* C17: the billing period, the billing price and the payment passed to
\* createStorageRecord are quoted from the offer whose address is passed as
\* provider: the quote names that provider and is priced with its plan.
C17_QuoteIsOfSubmittedProvider ==
    \A i \in 1..Len(running) :
        running[i].submitted.made =>
            /\ running[i].submitted.quotedFrom = running[i].submitted.provider
            /\ running[i].submitted.billingPeriods =
                 <<SelectPlan(running[i].selectedOffer).period>>
            /\ running[i].submitted.billingPrices =
                 <<parseEtherFixed(SelectPlan(running[i].selectedOffer).amount
                                   * running[i].file)>>
            /\ running[i].submitted.value =
                 parseEtherFixed(SelectPlan(running[i].selectedOffer).amount
                                 * running[i].file)

\* C18: at most one upload is running and none starts while uploading is
\* true; success is reported only with the receipt tx.wait() resolved with;
\* and, every awaited call settling, uploading = true leads to
\* uploading = false.
C18_UploadsAreSerialAndSettle ==
    /\ [](Len(running) <= 1)
    /\ [](uploading <=> Len(running) > 0)
    /\ [][Len(running') > Len(running) => ~uploading]_vars
    /\ []((statusType = "success" \/ finished.reported = "success")
            => (finished.reported = "success" /\ finished.receipt))
    /\ (uploading ~> ~uploading)

C18_Witness ==
    /\ ~uploading
    /\ running = <<>>
    /\ statusType = "success"
    /\ finished = [reported |-> "success", receipt |-> TRUE]

====
